---- MODULE Spec2Model ----
(***************************************************************************)
(* Model of the TOFU certificate validator of rune                         *)
(* (discovery/src/verifier.rs): the pinned-fingerprint map, its lock, the  *)
(* persisted report file `.known-clients`, and the operations              *)
(* CertValidator::new, add_trusted_domains (with save_report) and          *)
(* verify_server_cert.                                                     *)
(*                                                                         *)
(* A certificate is represented by what the external calls return on it:   *)
(* the verdict of the WebPKI chain verifier, and the result of parsing it  *)
(* and computing the base85 fingerprint of its public key.                 *)
(*                                                                         *)
(* Second part: the Device Store (native/hub/src/server/client/            *)
(* discovery.rs: DiscoveryStore) with its live cache, its lock, the file   *)
(* `.discovered` and the clock, and the device map of the Scanner's event  *)
(* forwarder (native/hub/src/utils/device_scanner.rs).                     *)
(*                                                                         *)
(* Specifications: Spec (the validator), SpecStore (the Device Store),     *)
(* SpecDevices (the Device Store and the Scanner's forwarder together).    *)
(***************************************************************************)
EXTENDS Integers, FiniteSets, Sequences, TLC

\* ------------------------------------------------------------------ bounds
\* Number of distinct strings used as server identities / map keys.
MaxKeys == 2
\* Number of distinct public-key fingerprints.
MaxFingerprints == 2

Keys == 1..MaxKeys
Fingerprints == 1..MaxFingerprints

\* ------------------------------------------------------------------ inputs
\* rustls ServerName: only the DnsName form carries a pinnable name.
ServerNames == [kind : {"DnsName", "IpAddress"}, text : Keys]

\* Verdict of inner_verifier.verify_server_cert: Ok, or one of its reasons.
DelegateVerdicts == {"ok", "UnknownIssuer", "Expired"}

\* parse_x509_certificate + calculate_base85_fingerprint on the end entity.
\* A certificate without a computable fingerprint carries none: one such value.
Certificates ==
    {c \in [key : {"ok", "unparsable"}, fingerprint : Fingerprints] :
        c.key = "ok" \/ c.fingerprint = 1}

\* HashMap<String, String>: a function from the keys present to fingerprints.
Maps == UNION {[D -> Fingerprints] : D \in SUBSET Keys}

EmptyMap == [k \in {} |-> 1]

\* ------------------------------------------------------------------- state
VARIABLES
    pathKind,      \* the base path on disk: "absent", "file" or "dir"
    report,        \* the file <path>/.known-clients: [state, entries]
    validator,     \* "none" until CertValidator::new returned Ok, then "ready"
    fingerprints,  \* CertValidator.fingerprints: the in-memory trust map
    lock,          \* the Mutex around it: "free", "held" or "poisoned"
    last,          \* the most recent call: its arguments and its outcome
    trusting,      \* a trust call in progress on one thread, step by step
    verifying,     \* a verify call in progress on another thread
    \* DiscoveryStore
    devices,       \* DiscoveryStore.devices: the live cache, a Vec
    discovered,    \* the file <base>/.discovered: [state, devices]
    devicesLock,   \* the tokio Mutex around the live cache: "free" or "held"
    now,           \* SystemTime::now(), in seconds
    storeCall,     \* the most recent call on the store
    \* DeviceScanner
    scannerDevices,  \* DeviceScanner.devices: HashMap keyed by fingerprint
    sink,            \* the last message given to broadcaster.broadcast
    is_broadcasting, \* DeviceScanner.is_broadcasting: the AtomicBool
    broadcast_task,  \* DeviceScanner.broadcast_task: 0 (None) or a run
    broadcastRuns,   \* the broadcast tasks spawned so far, in order
    listen_task,     \* DeviceScanner.listen_task: 0 (None) or a listener
    listenRuns,      \* the listen tasks spawned so far, in order
    emitted,         \* the events the scanner's engine has sent, in order
    eventRx,         \* the scanner's event channel: sent, not yet received
    published,       \* the messages given to broadcaster.broadcast, in order
    \* DiscoveryRuntime
    cancel_token,    \* DiscoveryRuntime.cancel_token is cancelled
    service,         \* the engine: "idle", "listening" or "shutdown"
    announceLoop,    \* the announce task of start_service: [pc, announces, sleeps]
    runtimeEmitted,  \* the events the runtime's engine has sent, in order
    runtimeRx,       \* the runtime's event channel: sent, not yet received
    eventLoop,       \* the task around update_device: "idle" or "blocked"
    shutdown,        \* DiscoveryRuntime::shutdown: "none", "returned", "blocked"
    heardOwn,        \* the engines that received the node's own announcement
    \* ScrobblingManager
    max_retries,        \* ScrobblingManager.max_retries
    is_authenticating,  \* ScrobblingManager.is_authenticating
    clients,            \* the services whose client is Some, with a session
    now_playing_cache,  \* ScrobblingManager.now_playing_cache
    scrobble_cache,     \* ScrobblingManager.scrobble_cache
    scrobbleCall        \* the most recent call on the manager

validatorVars ==
    <<pathKind, report, validator, fingerprints, lock, last, trusting, verifying>>

storeVars == <<devices, discovered, devicesLock, now, storeCall>>

scannerVars == <<scannerDevices, sink>>

broadcastVars == <<is_broadcasting, broadcast_task, broadcastRuns>>

listenVars == <<listen_task, listenRuns>>

forwarderVars == <<emitted, eventRx, published>>

runtimeVars ==
    <<cancel_token, service, announceLoop, runtimeEmitted, runtimeRx, eventLoop,
      shutdown>>

eventVars == <<forwarderVars, runtimeVars, heardOwn>>

orchestrationVars == <<broadcastVars, listenVars, eventVars>>

scrobblingVars ==
    <<max_retries, is_authenticating, clients, now_playing_cache,
      scrobble_cache, scrobbleCall>>

vars ==
    <<validatorVars, storeVars, scannerVars, orchestrationVars, scrobblingVars>>

\* ------------------------------------------------------- the report on disk
\* toml::to_string(&FingerprintReport): one `key = "value"` line per entry.
ToToml(map) == {<<k, map[k]>> : k \in DOMAIN map}

\* toml::from_str: the table back into a HashMap (keys of a table are unique).
FromToml(entries) ==
    [k \in {e[1] : e \in entries} |-> (CHOOSE e \in entries : e[1] = k)[2]]

NoReport == [state |-> "absent", entries |-> {}]

CorruptReport == [state |-> "corrupt", entries |-> {}]

Reports == {NoReport, CorruptReport}
           \cup {[state |-> "ok", entries |-> ToToml(m)] : m \in Maps}

\* ------------------------------------------------------------ call records
NoName == [kind |-> "none", text |-> 1]

NoCert == [key |-> "none", fingerprint |-> 1]

NoCall ==
    [op |-> "none", result |-> "none", domains |-> {}, fingerprint |-> 1,
     server_name |-> NoName, delegate |-> "none", cert |-> NoCert,
     io_ok |-> TRUE, steps |-> <<>>]

\* No trust call in progress. rest: the domains not yet inserted, of all;
\* before: the map when the call took the lock.
NoTrust ==
    [pc |-> "idle", all |-> {}, rest |-> {}, fingerprint |-> 1,
     before |-> EmptyMap]

\* No verify call in progress. server_name and cert: what the call in
\* progress was given; result and seen: the verdict of the last call and the
\* map its lookup read.
NoVerify ==
    [pc |-> "idle", server_name |-> NoName, cert |-> NoCert, result |-> "none",
     seen |-> EmptyMap]

\* --------------------------------------------------- discovered devices
\* fingerprint: String, the identity of a device.
DeviceFingerprints == {"fp-a", "fp-b"}

Aliases == {"laptop", "phone"}

\* The instants the clock and the last_seen stamps take, in seconds.
Times == {0, 10, 30, 31}

\* The last_seen stamps of the devices: both lie ahead of some instant of
\* the clock and at least the retention window behind another.
SeenTimes == {0, 10}

\* Duration::from_secs(30): the retention window of save and prune_expired.
RetentionSecs == 30

\* DiscoveredDevice: alias stands for the payload (alias, device_model,
\* device_type), which the store copies as a whole.
DiscoveredDevices ==
    [fingerprint : DeviceFingerprints, alias : Aliases,
     last_seen : SeenTimes]

FingerprintsOf(vec) == {vec[i].fingerprint : i \in DOMAIN vec}

\* At most one entry per fingerprint.
UniqueFingerprints(vec) ==
    \A i, j \in DOMAIN vec : vec[i].fingerprint = vec[j].fingerprint => i = j

\* The Vecs of devices with one entry per fingerprint.
DeviceVecs ==
    {vec \in UNION {[1..n -> DiscoveredDevices] : n \in 0..Cardinality(DeviceFingerprints)} :
        UniqueFingerprints(vec)}

\* toml::to_string(&filtered): one table per device, in the Vec's order.
DevicesToToml(vec) ==
    [i \in DOMAIN vec |-> <<vec[i].fingerprint, vec[i].alias, vec[i].last_seen>>]

\* toml::from_str(&content): the tables back into a Vec<DiscoveredDevice>.
DevicesFromToml(tables) ==
    [i \in DOMAIN tables |->
        [fingerprint |-> tables[i][1], alias |-> tables[i][2],
         last_seen |-> tables[i][3]]]

NoDiscovered == [state |-> "absent", devices |-> <<>>]

CorruptDiscovered == [state |-> "corrupt", devices |-> <<>>]

\* The contents of .discovered: none, unparsable text, or what a save wrote.
DiscoveredFiles ==
    {NoDiscovered, CorruptDiscovered}
    \cup {[state |-> "ok", devices |-> DevicesToToml(vec)] : vec \in DeviceVecs}

NoDevice == [fingerprint |-> "none", alias |-> "none", last_seen |-> 0]

\* The latest call on the store: its arguments, its result, the clock when
\* it ran, and the operation called before it.
NoStoreCall ==
    [op |-> "none", result |-> "none", device |-> NoDevice, io_ok |-> TRUE,
     at |-> 0, after |-> "none"]

NoMessage == [fingerprint |-> "none", alias |-> "none", last_seen_unix_epoch |-> 0]

\* DiscoveryStore::new: an empty cache behind a free lock; nothing called yet.
StoreIdle ==
    /\ devices = <<>>
    /\ discovered = NoDiscovered
    /\ devicesLock = "free"
    /\ now = 0
    /\ storeCall = NoStoreCall

\* DeviceScanner::new: an empty device map, nothing published.
ScannerIdle ==
    /\ scannerDevices = EmptyMap
    /\ sink = NoMessage
    /\ is_broadcasting = FALSE
    /\ broadcast_task = 0
    /\ broadcastRuns = <<>>
    /\ listen_task = 0
    /\ listenRuns = <<>>
    /\ emitted = <<>>
    /\ eventRx = <<>>
    /\ published = <<>>
    /\ heardOwn = {}

\* Before DiscoveryRuntime::new: no engine, no task, nothing in the channel.
NoLoop == [pc |-> "none", announces |-> 0, sleeps |-> 0, failed |-> FALSE]

\* No call on the manager yet. failures: how many calls of the client fail
\* before one succeeds; calls and sleeps: the calls of the client and the
\* sleeps the retry loop of the call made; sent: the cached tracks the call
\* handed on.
NoScrobbleCall ==
    [op |-> "none", service |-> "none", result |-> "none", failures |-> 0,
     calls |-> 0, sleeps |-> 0, sent |-> 0]

\* ScrobblingManager::new(1, retry_delay): no client, nothing cached.
ScrobblingIdle ==
    /\ max_retries = 1
    /\ is_authenticating = FALSE
    /\ clients = {}
    /\ now_playing_cache = <<>>
    /\ scrobble_cache = <<>>
    /\ scrobbleCall = NoScrobbleCall

RuntimeIdle ==
    /\ cancel_token = FALSE
    /\ service = "idle"
    /\ announceLoop = NoLoop
    /\ runtimeEmitted = <<>>
    /\ runtimeRx = <<>>
    /\ eventLoop = "idle"
    /\ shutdown = "none"

\* ------------------------------------------------------------------- Init
\* The file system before the validator is constructed: the base path may be
\* missing, a plain file, or a directory that holds no report, an unparsable
\* report, or a report with any entries (the file is plain TOML text).
Init ==
    /\ pathKind \in {"absent", "file", "dir"}
    /\ report \in Reports
    /\ (pathKind # "dir" => report = NoReport)
    /\ validator = "none"
    /\ fingerprints = EmptyMap
    /\ lock = "free"
    /\ last = NoCall
    /\ trusting = NoTrust
    /\ verifying = NoVerify
    /\ StoreIdle
    /\ ScannerIdle
    /\ RuntimeIdle
    /\ ScrobblingIdle

\* ------------------------------------------------------ CertValidator::new
\* Variant of NewOutcome that degrades on a report it cannot parse: it starts
\* with an empty map instead of failing.
NewOutcomeLenient(io_ok) ==
    IF pathKind = "absent" /\ ~io_ok
    THEN [result |-> "DirectoryCreation", pathKind |-> pathKind,
          fingerprints |-> EmptyMap, steps |-> <<"create_dir_all">>]
    ELSE IF pathKind = "file"
    THEN [result |-> "NotADirectory", pathKind |-> pathKind,
          fingerprints |-> EmptyMap, steps |-> <<>>]
    ELSE IF report.state = "absent"
    THEN [result |-> "Ok", pathKind |-> "dir", fingerprints |-> EmptyMap,
          steps |-> IF pathKind = "absent" THEN <<"create_dir_all">>
                    ELSE <<>>]
    ELSE IF ~io_ok
    THEN [result |-> "DirectoryCreation", pathKind |-> "dir",
          fingerprints |-> EmptyMap, steps |-> <<"read_to_string">>]
    ELSE [result |-> "Ok", pathKind |-> "dir",
          fingerprints |-> IF report.state = "corrupt" THEN EmptyMap
                           ELSE FromToml(report.entries),
          steps |-> <<"read_to_string", "from_str">>]

\* The outcome of new(path): [result, pathKind, fingerprints, steps].
NewOutcome(io_ok) ==
    IF pathKind = "absent" /\ ~io_ok
    THEN [result |-> "DirectoryCreation", pathKind |-> pathKind,
          fingerprints |-> EmptyMap, steps |-> <<"create_dir_all">>]
    ELSE IF pathKind = "file"
    THEN [result |-> "NotADirectory", pathKind |-> pathKind,
          fingerprints |-> EmptyMap, steps |-> <<>>]
    ELSE IF report.state = "absent"
    THEN [result |-> "Ok", pathKind |-> "dir", fingerprints |-> EmptyMap,
          steps |-> IF pathKind = "absent" THEN <<"create_dir_all">>
                    ELSE <<>>]
    ELSE IF ~io_ok
    THEN [result |-> "DirectoryCreation", pathKind |-> "dir",
          fingerprints |-> EmptyMap, steps |-> <<"read_to_string">>]
    ELSE IF report.state = "corrupt"
    THEN [result |-> "Serialization", pathKind |-> "dir",
          fingerprints |-> EmptyMap,
          steps |-> <<"read_to_string", "from_str">>]
    ELSE [result |-> "Ok", pathKind |-> "dir",
          fingerprints |-> FromToml(report.entries),
          steps |-> <<"read_to_string", "from_str">>]

\* Variant of New that writes an empty report file when it finds none.
NewWritesReport(io_ok) ==
    LET out == NewOutcome(io_ok) IN
    /\ pathKind' = out.pathKind
    /\ validator' = IF out.result = "Ok" THEN "ready" ELSE "none"
    /\ fingerprints' = out.fingerprints
    /\ lock' = "free"
    /\ last' = [NoCall EXCEPT !.op = "new", !.result = out.result,
                              !.io_ok = io_ok, !.steps = out.steps]
    /\ report' = IF out.result = "Ok" /\ report.state = "absent"
                 THEN [state |-> "ok", entries |-> {}]
                 ELSE report
    /\ UNCHANGED <<storeVars, scannerVars, scrobblingVars>>

\* A process (re)start constructs the validator afresh: a new Mutex around the
\* map loaded from disk. A failed construction yields no validator.
New(io_ok) ==
    LET out == NewOutcome(io_ok) IN
    /\ pathKind' = out.pathKind
    /\ validator' = IF out.result = "Ok" THEN "ready" ELSE "none"
    /\ fingerprints' = out.fingerprints
    /\ lock' = "free"
    /\ last' = [NoCall EXCEPT !.op = "new", !.result = out.result,
                              !.io_ok = io_ok, !.steps = out.steps]
    /\ UNCHANGED <<report, storeVars, scannerVars, scrobblingVars>>

\* ------------------------------------------- CertValidator::save_report
\* add_trusted_domains still holds the MutexGuard `fingerprints` when it
\* calls self.save_report().
GuardHeldDuringSave == TRUE

\* save_report begins with self.fingerprints.lock(). std::sync::Mutex is not
\* reentrant: locking it on the thread that holds it never returns, it blocks
\* forever or panics (the unwinding then drops the guard and poisons the
\* Mutex). Otherwise the whole map is serialized and written over the file.
\* The set of possible outcomes: [result, lock, report].
SaveReport(map, guard_held, io_ok) ==
    IF guard_held
    THEN {[result |-> "blocked", lock |-> "held", report |-> report],
          [result |-> "panic", lock |-> "poisoned", report |-> report]}
    ELSE IF io_ok
    THEN {[result |-> "Ok", lock |-> "free",
           report |-> [state |-> "ok", entries |-> ToToml(map)]]}
    ELSE {[result |-> "DirectoryCreation", lock |-> "free", report |-> report]}

\* ------------------------------------ CertValidator::add_trusted_domains
\* fingerprints.insert(domain, fingerprint.clone()) for every domain.
Insert(map, domains, fingerprint) ==
    [k \in DOMAIN map \cup domains |->
        IF k \in domains THEN fingerprint ELSE map[k]]

TrustCall(domains, fingerprint, io_ok, result) ==
    [NoCall EXCEPT !.op = "trust", !.result = result, !.domains = domains,
                   !.fingerprint = fingerprint, !.io_ok = io_ok]

\* trust(domains, fingerprint). io_ok: whether the disk would take the write.
AddTrustedDomains(domains, fingerprint, io_ok) ==
    /\ validator = "ready"
    /\ IF lock = "free"
       THEN \E out \in SaveReport(Insert(fingerprints, domains, fingerprint),
                                  GuardHeldDuringSave, io_ok) :
               /\ fingerprints' = Insert(fingerprints, domains, fingerprint)
               /\ lock' = out.lock
               /\ report' = out.report
               /\ last' = TrustCall(domains, fingerprint, io_ok, out.result)
       ELSE \* self.fingerprints.lock().unwrap() blocks on a held Mutex and
            \* panics on a poisoned one: nothing is inserted.
            /\ last' = TrustCall(domains, fingerprint, io_ok,
                                 IF lock = "held" THEN "blocked" ELSE "panic")
            /\ UNCHANGED <<fingerprints, lock, report>>
    /\ UNCHANGED <<pathKind, validator, storeVars, scannerVars, scrobblingVars>>

\* ------------------------------------- CertValidator::verify_server_cert
\* Variant of VerifyServerCert that accepts every pinned identity without
\* comparing the presented fingerprint with the stored one.
VerifyServerCertAnyPin(map, lock_state, server_name, delegate, cert) ==
    IF delegate # "ok"
    THEN [result |-> delegate, steps |-> <<"delegate">>]
    ELSE IF cert.key # "ok"
    THEN [result |-> "General", steps |-> <<"delegate", "fingerprint">>]
    ELSE IF server_name.kind # "DnsName"
    THEN [result |-> "InvalidServerName",
          steps |-> <<"delegate", "fingerprint", "name">>]
    ELSE IF lock_state = "held"
    THEN [result |-> "blocked",
          steps |-> <<"delegate", "fingerprint", "name">>]
    ELSE IF lock_state = "poisoned"
    THEN [result |-> "panic",
          steps |-> <<"delegate", "fingerprint", "name">>]
    ELSE [result |->
            IF server_name.text \notin DOMAIN map THEN "UnknownServer"
            ELSE "Accept",
          steps |-> <<"delegate", "fingerprint", "name", "lookup">>]

\* Variant of VerifyServerCert that looks the pin up before it asks the chain
\* verifier, and accepts a pinned key whatever the chain verifier says.
VerifyServerCertPinFirst(map, lock_state, server_name, delegate, cert) ==
    IF /\ lock_state = "free"
       /\ cert.key = "ok"
       /\ server_name.kind = "DnsName"
       /\ server_name.text \in DOMAIN map
       /\ map[server_name.text] = cert.fingerprint
    THEN [result |-> "Accept",
          steps |-> <<"fingerprint", "name", "lookup">>]
    ELSE IF delegate # "ok"
    THEN [result |-> delegate,
          steps |-> <<"fingerprint", "name", "lookup", "delegate">>]
    ELSE IF cert.key # "ok"
    THEN [result |-> "General", steps |-> <<"delegate", "fingerprint">>]
    ELSE IF server_name.kind # "DnsName"
    THEN [result |-> "InvalidServerName",
          steps |-> <<"delegate", "fingerprint", "name">>]
    ELSE IF lock_state = "held"
    THEN [result |-> "blocked",
          steps |-> <<"delegate", "fingerprint", "name">>]
    ELSE IF lock_state = "poisoned"
    THEN [result |-> "panic",
          steps |-> <<"delegate", "fingerprint", "name">>]
    ELSE [result |->
            IF server_name.text \notin DOMAIN map THEN "UnknownServer"
            ELSE "FingerprintMismatch",
          steps |-> <<"delegate", "fingerprint", "name", "lookup">>]

\* Variant of VerifyServerCert that uses the text of any identity form as the
\* key of the lookup instead of rejecting the forms that are not DNS names.
VerifyServerCertAnyName(map, lock_state, server_name, delegate, cert) ==
    IF delegate # "ok"
    THEN [result |-> delegate, steps |-> <<"delegate">>]
    ELSE IF cert.key # "ok"
    THEN [result |-> "General", steps |-> <<"delegate", "fingerprint">>]
    ELSE IF lock_state = "held"
    THEN [result |-> "blocked",
          steps |-> <<"delegate", "fingerprint", "name">>]
    ELSE IF lock_state = "poisoned"
    THEN [result |-> "panic",
          steps |-> <<"delegate", "fingerprint", "name">>]
    ELSE [result |->
            IF server_name.text \notin DOMAIN map THEN "UnknownServer"
            ELSE IF map[server_name.text] # cert.fingerprint
                 THEN "FingerprintMismatch"
                 ELSE "Accept",
          steps |-> <<"delegate", "fingerprint", "name", "lookup">>]

\* The result of verify and the steps it ran, in order. The rejections are
\* RustlsError::General values, named here by their message: "Invalid server
\* name", "Certificate fingerprint mismatch", "Unknown server"; "General" is
\* the parse or fingerprint error. lock().unwrap() blocks forever on a Mutex
\* another thread holds for good, and panics on a poisoned one.
VerifyServerCert(map, lock_state, server_name, delegate, cert) ==
    IF delegate # "ok"
    THEN [result |-> delegate, steps |-> <<"delegate">>]
    ELSE IF cert.key # "ok"
    THEN [result |-> "General", steps |-> <<"delegate", "fingerprint">>]
    ELSE IF server_name.kind # "DnsName"
    THEN [result |-> "InvalidServerName",
          steps |-> <<"delegate", "fingerprint", "name">>]
    ELSE IF lock_state = "held"
    THEN [result |-> "blocked",
          steps |-> <<"delegate", "fingerprint", "name">>]
    ELSE IF lock_state = "poisoned"
    THEN [result |-> "panic",
          steps |-> <<"delegate", "fingerprint", "name">>]
    ELSE [result |->
            IF server_name.text \notin DOMAIN map THEN "UnknownServer"
            ELSE IF map[server_name.text] # cert.fingerprint
                 THEN "FingerprintMismatch"
                 ELSE "Accept",
          steps |-> <<"delegate", "fingerprint", "name", "lookup">>]

VerifyCall(server_name, delegate, cert, out) ==
    [NoCall EXCEPT !.op = "verify", !.result = out.result,
                   !.server_name = server_name, !.delegate = delegate,
                   !.cert = cert, !.steps = out.steps]

\* Variant of Verify that pins the presented key on first use: an unknown
\* DNS name is entered into the map with the certificate's fingerprint.
VerifyTofu(server_name, delegate, cert) ==
    LET out == VerifyServerCert(fingerprints, lock, server_name, delegate, cert)
    IN
    /\ validator = "ready"
    /\ last' = VerifyCall(server_name, delegate, cert, out)
    /\ fingerprints' =
          IF out.result = "UnknownServer"
          THEN Insert(fingerprints, {server_name.text}, cert.fingerprint)
          ELSE fingerprints
    /\ UNCHANGED <<pathKind, report, validator, lock, storeVars, scannerVars, scrobblingVars>>

\* verify(chain, identity, time) at TLS-handshake time.
Verify(server_name, delegate, cert) ==
    /\ validator = "ready"
    /\ last' = VerifyCall(server_name, delegate, cert,
                 VerifyServerCert(fingerprints, lock, server_name, delegate,
                                  cert))
    /\ UNCHANGED <<pathKind, report, validator, fingerprints, lock, storeVars,
                   scannerVars, scrobblingVars>>

\* ------------------------------------------------------------------- Next
Construct ==
    /\ \E io_ok \in BOOLEAN : New(io_ok)
    /\ UNCHANGED <<trusting, verifying, orchestrationVars>>

Trust ==
    \E domains \in SUBSET Keys, fingerprint \in Fingerprints,
       io_ok \in BOOLEAN :
        /\ AddTrustedDomains(domains, fingerprint, io_ok)
        /\ UNCHANGED <<trusting, verifying, orchestrationVars>>

Handshake ==
    \E server_name \in ServerNames, delegate \in DelegateVerdicts,
       cert \in Certificates :
        /\ Verify(server_name, delegate, cert)
        /\ UNCHANGED <<trusting, verifying, orchestrationVars>>

Next == Construct \/ Trust \/ Handshake

Spec == Init /\ [][Next]_vars

\* ------------------------------------------- trust and verify, concurrently
\* A trust that inserts without taking the lock.
TrustBeginUnlocked(domains, fingerprint) ==
    /\ validator = "ready"
    /\ trusting.pc = "idle"
    /\ lock = "free"
    /\ trusting' = [pc |-> "inserting", all |-> domains, rest |-> domains,
                    fingerprint |-> fingerprint, before |-> fingerprints]
    /\ UNCHANGED <<pathKind, report, validator, fingerprints, lock, last,
                   verifying, storeVars, scannerVars, scrobblingVars, orchestrationVars>>

\* add_trusted_domains up to its loop: self.fingerprints.lock().unwrap()
\* waits while the lock is held, panics when it is poisoned, and takes it
\* otherwise; the guard lives to the end of the call.
TrustBegin(domains, fingerprint) ==
    /\ validator = "ready"
    /\ trusting.pc \in {"idle", "panicked"}
    /\ lock # "held"
    /\ IF lock = "poisoned"
       THEN /\ trusting' = [NoTrust EXCEPT !.pc = "panicked"]
            /\ lock' = lock
       ELSE /\ trusting' = [pc |-> "inserting", all |-> domains,
                            rest |-> domains, fingerprint |-> fingerprint,
                            before |-> fingerprints]
            /\ lock' = "held"
    /\ UNCHANGED <<pathKind, report, validator, fingerprints, last, verifying,
                   storeVars, scannerVars, scrobblingVars, orchestrationVars>>

\* One turn of the loop: fingerprints.insert(domain, fingerprint.clone()).
TrustInsert(domain) ==
    /\ trusting.pc = "inserting"
    /\ domain \in trusting.rest
    /\ fingerprints' = Insert(fingerprints, {domain}, trusting.fingerprint)
    /\ trusting' = [trusting EXCEPT !.rest = @ \ {domain}]
    /\ UNCHANGED <<pathKind, report, validator, lock, last, verifying,
                   storeVars, scannerVars, scrobblingVars, orchestrationVars>>

\* After the loop: self.save_report()?, with the guard still alive.
TrustSave(io_ok) ==
    /\ trusting.pc = "inserting"
    /\ trusting.rest = {}
    /\ \E out \in SaveReport(fingerprints, GuardHeldDuringSave, io_ok) :
          /\ lock' = out.lock
          /\ report' = out.report
          /\ trusting' = [trusting EXCEPT !.pc =
                IF out.result = "blocked" THEN "blocked"
                ELSE IF out.result = "panic" THEN "panicked" ELSE "idle"]
    /\ UNCHANGED <<pathKind, validator, fingerprints, last, verifying,
                   storeVars, scannerVars, scrobblingVars, orchestrationVars>>

\* verify_server_cert up to its lock: the delegate, the fingerprint of the
\* end entity, the server name. A call that fails there returns at once.
VerifyBegin(server_name, delegate, cert) ==
    /\ validator = "ready"
    /\ verifying.pc = "idle"
    /\ verifying' =
          IF delegate = "ok" /\ cert.key = "ok" /\ server_name.kind = "DnsName"
          THEN [NoVerify EXCEPT !.pc = "lookup", !.server_name = server_name,
                                !.cert = cert]
          ELSE [NoVerify EXCEPT
                   !.result = VerifyServerCert(fingerprints, lock, server_name,
                                               delegate, cert).result]
    /\ UNCHANGED <<pathKind, report, validator, fingerprints, lock, last,
                   trusting, storeVars, scannerVars, scrobblingVars, orchestrationVars>>

\* self.fingerprints.lock().unwrap() and the match on fingerprints.get, under
\* the guard: the call waits while the lock is held and panics when it is
\* poisoned. The guard is dropped at the return.
VerifyLookup ==
    /\ verifying.pc = "lookup"
    /\ lock # "held"
    /\ verifying' =
          [verifying EXCEPT
              !.pc = "idle", !.server_name = NoName, !.cert = NoCert,
              !.result = VerifyServerCert(fingerprints, lock,
                            verifying.server_name, "ok", verifying.cert).result,
              !.seen = IF lock = "free" THEN fingerprints ELSE @]
    /\ UNCHANGED <<pathKind, report, validator, fingerprints, lock, last,
                   trusting, storeVars, scannerVars, scrobblingVars, orchestrationVars>>

\* A validator built from the report found on disk, with a thread that
\* trusts and a thread that verifies.
InitConcurrent ==
    /\ pathKind = "dir"
    /\ report \in {r \in Reports : r.state # "corrupt"}
    /\ validator = "ready"
    /\ fingerprints = FromToml(report.entries)
    /\ lock = "free"
    /\ last = NoCall
    /\ trusting = NoTrust
    /\ verifying = NoVerify
    /\ StoreIdle
    /\ ScannerIdle
    /\ RuntimeIdle
    /\ ScrobblingIdle

TrustBeginAny ==
    \E domains \in SUBSET Keys, fingerprint \in Fingerprints :
        TrustBegin(domains, fingerprint)

TrustStep ==
    \/ \E domain \in Keys : TrustInsert(domain)
    \/ \E io_ok \in BOOLEAN : TrustSave(io_ok)

VerifyBeginAny ==
    \E server_name \in ServerNames, delegate \in DelegateVerdicts,
       cert \in Certificates :
        VerifyBegin(server_name, delegate, cert)

NextConcurrent == TrustBeginAny \/ TrustStep \/ VerifyBeginAny \/ VerifyLookup

SpecConcurrent == InitConcurrent /\ [][NextConcurrent]_vars

\* ========================================================= DiscoveryStore
\* The validator before it is constructed.
ValidatorIdle ==
    /\ pathKind = "absent"
    /\ report = NoReport
    /\ validator = "none"
    /\ fingerprints = EmptyMap
    /\ lock = "free"
    /\ last = NoCall
    /\ trusting = NoTrust
    /\ verifying = NoVerify

\* d.last_seen.elapsed() with the clock at t: the seconds since last_seen, or
\* an error when last_seen is later than the clock.
\* An elapsed time that is zero where it cannot be computed.
ElapsedOrZero(d, t) ==
    IF d.last_seen <= t
    THEN [ok |-> TRUE, secs |-> t - d.last_seen]
    ELSE [ok |-> TRUE, secs |-> 0]

Elapsed(d, t) ==
    IF d.last_seen <= t
    THEN [ok |-> TRUE, secs |-> t - d.last_seen]
    ELSE [ok |-> FALSE, secs |-> 0]

\* A filter that keeps an entry up to and including the window's end.
FreshInclusive(d, t) ==
    Elapsed(d, t).ok /\ Elapsed(d, t).secs <= RetentionSecs

\* d.last_seen.elapsed().unwrap_or(Duration::MAX) < Duration::from_secs(30):
\* Duration::MAX, taken on an error, is not below the window.
Fresh(d, t) ==
    Elapsed(d, t).ok /\ Elapsed(d, t).secs < RetentionSecs

\* The entries of vec that pass the filter, in order.
Retain(vec, t) == SelectSeq(vec, LAMBDA d : Fresh(d, t))

StoreCall(op, result, device, io_ok) ==
    [op |-> op, result |-> result, device |-> device, io_ok |-> io_ok,
     at |-> now, after |-> storeCall.op]

\* ---------------------------------------------------- DiscoveryStore::load
\* A missing file returns Ok(Vec::new()) at once: neither the lock nor the
\* cache is touched. Otherwise read, parse, then lock and replace the cache.
LoadOutcome(io_ok) ==
    IF discovered.state = "absent"
    THEN [result |-> "Ok", devices |-> devices]
    ELSE IF ~io_ok
    THEN [result |-> "IoError", devices |-> devices]
    ELSE IF discovered.state = "corrupt"
    THEN [result |-> "ParseError", devices |-> devices]
    ELSE IF devicesLock = "held"
    THEN [result |-> "blocked", devices |-> devices]
    ELSE [result |-> "Ok", devices |-> DevicesFromToml(discovered.devices)]

Load(io_ok) ==
    LET out == LoadOutcome(io_ok) IN
    /\ devices' = out.devices
    /\ storeCall' = StoreCall("load", out.result, NoDevice, io_ok)
    /\ UNCHANGED <<discovered, devicesLock, now, validatorVars, scannerVars, scrobblingVars>>

\* ---------------------------------------------------- DiscoveryStore::save
\* prune_expired and update_device still hold the MutexGuard `devices` when
\* they await self.save().
StoreGuardHeldDuringSave == TRUE

\* A save that writes every entry of the cache, stale or not.
SaveOutcomeUnfiltered(vec, guard_held, io_ok) ==
    IF guard_held
    THEN [result |-> "blocked", lock |-> "held", discovered |-> discovered]
    ELSE IF ~io_ok
    THEN [result |-> "Err", lock |-> "free", discovered |-> discovered]
    ELSE [result |-> "Ok", lock |-> "free",
          discovered |-> [state |-> "ok", devices |-> DevicesToToml(vec)]]

\* save() begins with self.devices.lock().await. tokio::sync::Mutex is not
\* reentrant: awaited by the task that holds the guard, the lock never
\* resolves, and the guard is never dropped. Otherwise the entries that pass
\* the filter are serialized and written over the file; io_ok tells whether
\* toml::to_string and tokio::fs::write succeed.
\* The outcome: [result, lock, discovered].
SaveOutcome(vec, guard_held, io_ok) ==
    IF guard_held
    THEN [result |-> "blocked", lock |-> "held", discovered |-> discovered]
    ELSE IF ~io_ok
    THEN [result |-> "Err", lock |-> "free", discovered |-> discovered]
    ELSE [result |-> "Ok", lock |-> "free",
          discovered |-> [state |-> "ok",
                          devices |-> DevicesToToml(Retain(vec, now))]]

\* A save that also drops from the cache what it leaves out of the file.
SavePruning(io_ok) ==
    LET out == SaveOutcome(devices, devicesLock = "held", io_ok) IN
    /\ discovered' = out.discovered
    /\ devices' = IF out.result = "Ok" THEN Retain(devices, now) ELSE devices
    /\ storeCall' = StoreCall("save", out.result, NoDevice, io_ok)
    /\ UNCHANGED <<devicesLock, now, validatorVars, scannerVars, scrobblingVars>>

\* save() called on its own (DiscoveryRuntime::shutdown, or any holder of the
\* store).
Save(io_ok) ==
    LET out == SaveOutcome(devices, devicesLock = "held", io_ok) IN
    /\ discovered' = out.discovered
    /\ storeCall' = StoreCall("save", out.result, NoDevice, io_ok)
    /\ UNCHANGED <<devices, devicesLock, now, validatorVars, scannerVars, scrobblingVars>>

\* ------------------------------------------- DiscoveryStore::prune_expired
PruneExpired(io_ok) ==
    /\ IF devicesLock = "held"
       THEN /\ storeCall' = StoreCall("prune_expired", "blocked", NoDevice,
                                      io_ok)
            /\ UNCHANGED <<devices, discovered, devicesLock>>
       ELSE LET kept == Retain(devices, now)
                out == SaveOutcome(kept, StoreGuardHeldDuringSave, io_ok)
            IN /\ devices' = kept
               /\ discovered' = out.discovered
               /\ devicesLock' = out.lock
               /\ storeCall' = StoreCall("prune_expired", out.result,
                                         NoDevice, io_ok)
    /\ UNCHANGED <<now, validatorVars, scannerVars, scrobblingVars>>

\* ------------------------------------------- DiscoveryStore::update_device
\* An update that pushes the device whether or not its fingerprint is there.
UpsertPush(vec, device) == Append(vec, device)

\* Replace the first entry with the device's fingerprint, or push the device.
Upsert(vec, device) ==
    IF device.fingerprint \in FingerprintsOf(vec)
    THEN LET i == CHOOSE i \in DOMAIN vec :
                    /\ vec[i].fingerprint = device.fingerprint
                    /\ \A j \in 1..(i - 1) :
                          vec[j].fingerprint # device.fingerprint
         IN [vec EXCEPT ![i] = device]
    ELSE Append(vec, device)

\* An error of save() is logged and dropped: the call then returns normally.
UpdateDevice(device, io_ok) ==
    /\ IF devicesLock = "held"
       THEN /\ storeCall' = StoreCall("update_device", "blocked", device,
                                      io_ok)
            /\ UNCHANGED <<devices, discovered, devicesLock>>
       ELSE LET upserted == Upsert(devices, device)
                out == SaveOutcome(upserted, StoreGuardHeldDuringSave, io_ok)
            IN /\ devices' = upserted
               /\ discovered' = out.discovered
               /\ devicesLock' = out.lock
               /\ storeCall' = StoreCall("update_device",
                                  IF out.result = "blocked" THEN "blocked"
                                  ELSE "returned",
                                  device, io_ok)
    /\ UNCHANGED <<now, validatorVars, scannerVars, scrobblingVars>>

\* ----------------------------------------------- DiscoveryStore::get_devices
\* self.devices.lock().await.clone(): a copy of the cache, once the lock is
\* free.
GetDevices ==
    IF devicesLock = "held"
    THEN [result |-> "blocked", devices |-> <<>>]
    ELSE [result |-> "Ok", devices |-> devices]

\* ------------------------------------------------------------ the clock
Tick ==
    /\ now' \in {t \in Times : t > now}
    /\ UNCHANGED <<devices, discovered, devicesLock, storeCall, validatorVars,
                   scannerVars, scrobblingVars, orchestrationVars>>

\* -------------------------------------------------------------- SpecStore
InitStore ==
    /\ ValidatorIdle
    /\ ScannerIdle
    /\ RuntimeIdle
    /\ ScrobblingIdle
    /\ devices = <<>>
    /\ discovered \in DiscoveredFiles
    /\ devicesLock = "free"
    /\ now = 0
    /\ storeCall = NoStoreCall

LoadAny ==
    /\ \E io_ok \in BOOLEAN : Load(io_ok)
    /\ UNCHANGED orchestrationVars

SaveAny ==
    /\ \E io_ok \in BOOLEAN : Save(io_ok)
    /\ UNCHANGED orchestrationVars

PruneAny ==
    /\ \E io_ok \in BOOLEAN : PruneExpired(io_ok)
    /\ UNCHANGED orchestrationVars

UpdateAny ==
    /\ \E device \in DiscoveredDevices, io_ok \in BOOLEAN :
          UpdateDevice(device, io_ok)
    /\ UNCHANGED orchestrationVars

NextStore == LoadAny \/ SaveAny \/ PruneAny \/ UpdateAny \/ Tick

SpecStore == InitStore /\ [][NextStore]_vars

\* ========================================================== DeviceScanner
\* HashMap::insert: the value under the key, replacing what was there.
MapInsert(map, key, value) ==
    [k \in DOMAIN map \cup {key} |-> IF k = key THEN value ELSE map[k]]

\* The DiscoveredDeviceMessage built from a device: last_seen as whole
\* seconds since UNIX_EPOCH.
Message(device) ==
    [fingerprint |-> device.fingerprint, alias |-> device.alias,
     last_seen_unix_epoch |-> device.last_seen]

\* One turn of the forwarder's loop: the received device goes into the map
\* under its fingerprint, then its message goes to the broadcaster.
Forward(device) ==
    /\ scannerDevices' = MapInsert(scannerDevices, device.fingerprint, device)
    /\ sink' = Message(device)
    /\ UNCHANGED <<validatorVars, storeVars, scrobblingVars>>

\* ------------------------------------------------------------ SpecDevices
\* The Device Store and the Scanner's forwarder side by side, fed with the
\* devices announced at instant 0.
AnnouncedDevices == {d \in DiscoveredDevices : d.last_seen = 0}

InitDevices ==
    /\ InitStore
    /\ discovered.state = "ok" =>
          \A i \in DOMAIN discovered.devices :
              DevicesFromToml(discovered.devices)[i] \in AnnouncedDevices

UpdateAnnounced ==
    /\ \E device \in AnnouncedDevices, io_ok \in BOOLEAN :
          UpdateDevice(device, io_ok)
    /\ UNCHANGED orchestrationVars

ForwardAnnounced ==
    /\ \E device \in AnnouncedDevices : Forward(device)
    /\ UNCHANGED orchestrationVars

NextDevices ==
    \/ LoadAny
    \/ SaveAny
    \/ PruneAny
    \/ UpdateAnnounced
    \/ Tick
    \/ ForwardAnnounced

SpecDevices == InitDevices /\ [][NextDevices]_vars

\* ============================================== DeviceScanner: broadcasting
\* Number of broadcast tasks spawned in a behaviour.
MaxRuns == 3

\* Duration::from_secs(3): the sleep between two announces.
IntervalSecs == 3

\* duration_seconds: the run ends at the first check, or after two sleeps.
BroadcastDurations == {0, 6}

\* A broadcast task. pc is where the task stands: awaiting "announce",
\* awaiting the "sleep", at "exit" (past the break, before the final store),
\* "finished", or "aborted". The elapsed time it reads is that of its sleeps;
\* failed says that the announce of its current turn returned an error.
NewRun(duration) ==
    [pc |-> "announce", duration |-> duration, sleeps |-> 0, announces |-> 0,
     failed |-> FALSE]

\* The loop of the task is running.
LoopAlive(run) == run.pc \in {"announce", "sleep"}

\* JoinHandle::is_finished.
IsFinished(run) == run.pc \in {"finished", "aborted"}

\* JoinHandle::abort: the task is cancelled where it awaits; a task that is
\* running on another worker past its last await completes all the same.
Abort(run) ==
    IF run.pc \in {"announce", "sleep"}
    THEN [run EXCEPT !.pc = "aborted", !.failed = FALSE]
    ELSE run

\* A stop that aborts the stored task without looking at the flag.
StopBroadcastOutcomeAlways ==
    [flag |-> FALSE,
     task |-> 0,
     runs |-> IF broadcast_task # 0
              THEN [broadcastRuns EXCEPT ![broadcast_task] = Abort(@)]
              ELSE broadcastRuns]

\* stop_broadcast: nothing unless the flag is set; then take the handle, abort
\* its task unless finished, and clear the flag.
\* The outcome: [flag, task, runs].
StopBroadcastOutcome ==
    IF is_broadcasting
    THEN [flag |-> FALSE,
          task |-> 0,
          runs |-> IF broadcast_task # 0
                      /\ ~IsFinished(broadcastRuns[broadcast_task])
                   THEN [broadcastRuns EXCEPT ![broadcast_task] = Abort(@)]
                   ELSE broadcastRuns]
    ELSE [flag |-> is_broadcasting, task |-> broadcast_task,
          runs |-> broadcastRuns]

StopBroadcast ==
    /\ is_broadcasting' = StopBroadcastOutcome.flag
    /\ broadcast_task' = StopBroadcastOutcome.task
    /\ broadcastRuns' = StopBroadcastOutcome.runs
    /\ UNCHANGED <<validatorVars, storeVars, scannerVars, scrobblingVars, listenVars, eventVars>>

\* start_broadcast: stop_broadcast, set the flag, spawn the task, store its
\* handle over whatever broadcast_task holds.
StartBroadcast(duration) ==
    /\ Len(broadcastRuns) < MaxRuns
    /\ is_broadcasting' = TRUE
    /\ broadcastRuns' = Append(StopBroadcastOutcome.runs, NewRun(duration))
    /\ broadcast_task' = Len(broadcastRuns) + 1
    /\ UNCHANGED <<validatorVars, storeVars, scannerVars, scrobblingVars, listenVars, eventVars>>

\* A loop that tries again at once when the announce fails.
RunAnnounceRetry(t, ok) ==
    LET run == broadcastRuns[t] IN
    /\ run.pc = "announce"
    /\ broadcastRuns' = [broadcastRuns EXCEPT ![t] =
          [run EXCEPT !.announces = @ + 1, !.failed = ~ok,
                      !.pc = IF ~ok /\ run.announces <= run.sleeps
                             THEN "announce"
                             ELSE IF run.sleeps * IntervalSecs >= run.duration
                             THEN "exit" ELSE "sleep"]]
    /\ UNCHANGED <<is_broadcasting, broadcast_task, validatorVars, storeVars,
                   scannerVars, scrobblingVars, listenVars, eventVars>>

\* One announce of the task and the duration check after it: an error of
\* announce is logged and nothing else; the loop breaks when the elapsed time
\* has reached the duration, and goes to sleep otherwise.
RunAnnounce(t, ok) ==
    LET run == broadcastRuns[t] IN
    /\ run.pc = "announce"
    /\ broadcastRuns' = [broadcastRuns EXCEPT ![t] =
          [run EXCEPT !.announces = @ + 1, !.failed = ~ok,
                      !.pc = IF run.sleeps * IntervalSecs >= run.duration
                             THEN "exit" ELSE "sleep"]]
    /\ UNCHANGED <<is_broadcasting, broadcast_task, validatorVars, storeVars,
                   scannerVars, scrobblingVars, listenVars, eventVars>>

\* tokio::time::sleep(Duration::from_secs(3)) has elapsed.
RunSleep(t) ==
    LET run == broadcastRuns[t] IN
    /\ run.pc = "sleep"
    /\ broadcastRuns' = [broadcastRuns EXCEPT ![t] =
          [run EXCEPT !.sleeps = @ + 1, !.pc = "announce", !.failed = FALSE]]
    /\ UNCHANGED <<is_broadcasting, broadcast_task, validatorVars, storeVars,
                   scannerVars, scrobblingVars, listenVars, eventVars>>

\* A task that ends without clearing the flag.
RunExitKeepsFlag(t) ==
    /\ broadcastRuns[t].pc = "exit"
    /\ broadcastRuns' = [broadcastRuns EXCEPT ![t].pc = "finished",
                                              ![t].failed = FALSE]
    /\ UNCHANGED <<is_broadcasting, broadcast_task, validatorVars, storeVars,
                   scannerVars, scrobblingVars, listenVars, eventVars>>

\* is_broadcasting.store(false) at the end of the task.
RunExit(t) ==
    /\ broadcastRuns[t].pc = "exit"
    /\ broadcastRuns' = [broadcastRuns EXCEPT ![t].pc = "finished",
                                              ![t].failed = FALSE]
    /\ is_broadcasting' = FALSE
    /\ UNCHANGED <<broadcast_task, validatorVars, storeVars, scannerVars, scrobblingVars,
                   listenVars, eventVars>>

\* ================================================ DeviceScanner: listening
\* Number of listen tasks spawned in a behaviour.
MaxListens == 2

\* A listen task is "listening" (inside discovery_service.listen), "ended"
\* (listen returned an error, which the task logs) or "aborted".
AbortListen(pc) == IF pc = "listening" THEN "aborted" ELSE pc

\* start_listening: spawn the task, store its handle over whatever
\* listen_task holds; a JoinHandle that is dropped leaves its task running.
StartListening ==
    /\ Len(listenRuns) < MaxListens
    /\ listenRuns' = Append(listenRuns, "listening")
    /\ listen_task' = Len(listenRuns) + 1
    /\ UNCHANGED <<validatorVars, storeVars, scannerVars, scrobblingVars, broadcastVars, eventVars>>

\* The engine's listen operation ends on a fatal socket error.
ListenEnds(t) ==
    /\ listenRuns[t] = "listening"
    /\ listenRuns' = [listenRuns EXCEPT ![t] = "ended"]
    /\ UNCHANGED <<listen_task, validatorVars, storeVars, scannerVars, scrobblingVars,
                   broadcastVars, eventVars>>

\* stop_listening: take the handle and abort its task.
StopListening ==
    /\ listenRuns' = IF listen_task # 0
                     THEN [listenRuns EXCEPT ![listen_task] = AbortListen(@)]
                     ELSE listenRuns
    /\ listen_task' = 0
    /\ UNCHANGED <<validatorVars, storeVars, scannerVars, scrobblingVars, broadcastVars, eventVars>>

\* ------------------------------------------------------------ SpecScanner
\* The scanner's broadcast and listen operations, called one after another
\* while the tasks they spawned run.
InitScanner ==
    ValidatorIdle /\ StoreIdle /\ ScannerIdle /\ RuntimeIdle /\ ScrobblingIdle

StartBroadcastAny == \E duration \in BroadcastDurations : StartBroadcast(duration)

\* A step of broadcast task t.
TaskStep(t) ==
    /\ t \in DOMAIN broadcastRuns
    /\ \/ \E ok \in BOOLEAN : RunAnnounce(t, ok)
       \/ RunSleep(t)
       \/ RunExit(t)

RunStep == \E t \in 1..MaxRuns : TaskStep(t)

ListenStep == \E t \in DOMAIN listenRuns : ListenEnds(t)

NextScanner ==
    \/ StartBroadcastAny
    \/ StopBroadcast
    \/ RunStep
    \/ StartListening
    \/ StopListening
    \/ ListenStep

SpecScanner == InitScanner /\ [][NextScanner]_vars

\* The broadcast operation alone. The runtime polls every spawned task that
\* can run: an announce returns, a sleep elapses, a task past its loop ends.
NextBroadcast == StartBroadcastAny \/ StopBroadcast \/ RunStep

SpecBroadcastFair ==
    /\ InitScanner
    /\ [][NextBroadcast]_vars
    /\ \A t \in 1..MaxRuns : WF_vars(TaskStep(t))

\* ================================================== discovered-device events
\* Number of events the engines send into their channels in a behaviour.
MaxEvents == 3

\* The fingerprint of the local DeviceInfo.
LocalFingerprint == "fp-self"

Malformed == [kind |-> "malformed", fingerprint |-> "none", alias |-> "none"]

\* What arrives on the multicast socket, any number of times and in any
\* order: announcements of peers, the node's own announcement, other bytes.
Datagrams ==
    {Malformed}
    \cup [kind : {"announce"},
          fingerprint : DeviceFingerprints \cup {LocalFingerprint},
          alias : Aliases]

\* A listener that sends an event for every announcement it decodes.
ListenEmitsOwn(datagram) ==
    IF datagram.kind = "malformed"
    THEN <<>>
    ELSE <<[fingerprint |-> datagram.fingerprint, alias |-> datagram.alias,
            last_seen |-> now]>>

\* The engine's listen operation on one datagram: a malformed datagram is
\* discarded, the node's own announcement is filtered, any other gives one
\* DiscoveredDevice event with last_seen = now.
ListenEmits(datagram) ==
    IF datagram.kind = "malformed" \/ datagram.fingerprint = LocalFingerprint
    THEN <<>>
    ELSE <<[fingerprint |-> datagram.fingerprint, alias |-> datagram.alias,
            last_seen |-> now]>>

\* The engine, when the datagram is the node's own announcement.
Heard(engine, datagram) ==
    IF datagram.fingerprint = LocalFingerprint THEN {engine} ELSE {}

\* A listen loop of the scanner receives a datagram.
ScannerReceive(datagram) ==
    /\ \E t \in DOMAIN listenRuns : listenRuns[t] = "listening"
    /\ Len(emitted) + Len(runtimeEmitted) < MaxEvents
    /\ emitted' = emitted \o ListenEmits(datagram)
    /\ eventRx' = eventRx \o ListenEmits(datagram)
    /\ heardOwn' = heardOwn \cup Heard("scanner", datagram)
    /\ UNCHANGED <<published, validatorVars, storeVars, scannerVars, scrobblingVars,
                   broadcastVars, listenVars, runtimeVars>>

\* A forwarder that does not publish a device the map already holds.
ForwardEventOnce ==
    /\ eventRx # <<>>
    /\ Forward(Head(eventRx))
    /\ eventRx' = Tail(eventRx)
    /\ published' =
          IF /\ Head(eventRx).fingerprint \in DOMAIN scannerDevices
             /\ scannerDevices[Head(eventRx).fingerprint] = Head(eventRx)
          THEN published
          ELSE Append(published, Message(Head(eventRx)))
    /\ UNCHANGED <<emitted, heardOwn, broadcastVars, listenVars, runtimeVars>>

\* One turn of the forwarder's loop on the event event_rx.recv() returns.
ForwardEvent ==
    /\ eventRx # <<>>
    /\ Forward(Head(eventRx))
    /\ eventRx' = Tail(eventRx)
    /\ published' = Append(published, Message(Head(eventRx)))
    /\ UNCHANGED <<emitted, heardOwn, broadcastVars, listenVars, runtimeVars>>

\* ======================================================== DiscoveryRuntime
\* Number of announces of the runtime's announce task in a behaviour.
MaxAnnounces == 3

\* start_service: the engine's listen, then the announce task; an error of
\* listen is returned before anything is spawned.
StartService(listen_ok) ==
    /\ service = "idle"
    /\ shutdown = "none"
    /\ IF listen_ok
       THEN /\ service' = "listening"
            /\ announceLoop' = [NoLoop EXCEPT !.pc = "announce"]
       ELSE UNCHANGED <<service, announceLoop>>
    /\ UNCHANGED <<cancel_token, runtimeEmitted, runtimeRx, eventLoop, shutdown,
                   validatorVars, storeVars, scannerVars, scrobblingVars, broadcastVars, listenVars,
                   forwarderVars, heardOwn>>

\* The engine's listen operation of the runtime receives a datagram: it runs
\* from start_service until the token is cancelled or the engine shut down.
RuntimeReceive(datagram) ==
    /\ service = "listening"
    /\ ~cancel_token
    /\ Len(emitted) + Len(runtimeEmitted) < MaxEvents
    /\ runtimeEmitted' = runtimeEmitted \o ListenEmits(datagram)
    /\ runtimeRx' = runtimeRx \o ListenEmits(datagram)
    /\ heardOwn' = heardOwn \cup Heard("runtime", datagram)
    /\ UNCHANGED <<cancel_token, service, announceLoop, eventLoop, shutdown,
                   validatorVars, storeVars, scannerVars, scrobblingVars, broadcastVars,
                   listenVars, forwarderVars>>

\* The task spawned by DiscoveryRuntime::new: receive an event, await
\* update_device, and only then receive the next.
EventLoop(io_ok) ==
    /\ eventLoop = "idle"
    /\ runtimeRx # <<>>
    /\ UpdateDevice(Head(runtimeRx), io_ok)
    /\ runtimeRx' = Tail(runtimeRx)
    /\ eventLoop' = IF storeCall'.result = "blocked" THEN "blocked" ELSE "idle"
    /\ UNCHANGED <<cancel_token, service, announceLoop, runtimeEmitted, shutdown,
                   broadcastVars, listenVars, forwarderVars, heardOwn>>

\* The announce task of start_service: announce, log an error, sleep; the
\* loop has no exit and looks at no token.
LoopAnnounce(ok) ==
    /\ announceLoop.pc = "announce"
    /\ announceLoop.announces < MaxAnnounces
    /\ announceLoop' = [announceLoop EXCEPT !.pc = "sleep", !.failed = ~ok,
                                            !.announces = @ + 1]
    /\ UNCHANGED <<cancel_token, service, runtimeEmitted, runtimeRx, eventLoop,
                   shutdown,
                   validatorVars, storeVars, scannerVars, scrobblingVars, broadcastVars,
                   listenVars, forwarderVars, heardOwn>>

\* tokio::time::sleep(interval) has elapsed.
LoopSleep ==
    /\ announceLoop.pc = "sleep"
    /\ announceLoop' = [announceLoop EXCEPT !.pc = "announce", !.failed = FALSE,
                                            !.sleeps = @ + 1]
    /\ UNCHANGED <<cancel_token, service, runtimeEmitted, runtimeRx, eventLoop,
                   shutdown,
                   validatorVars, storeVars, scannerVars, scrobblingVars, broadcastVars,
                   listenVars, forwarderVars, heardOwn>>

\* shutdown: cancel the token, shut the engine down, save the store; an error
\* of save is logged. The call returns when save does.
Shutdown(io_ok) ==
    /\ shutdown = "none"
    /\ cancel_token' = TRUE
    /\ service' = "shutdown"
    /\ Save(io_ok)
    /\ shutdown' = IF storeCall'.result = "blocked" THEN "blocked"
                   ELSE "returned"
    /\ UNCHANGED <<announceLoop, runtimeEmitted, runtimeRx, eventLoop, broadcastVars,
                   listenVars, forwarderVars, heardOwn>>

\* ------------------------------------------------------------- SpecEvents
\* Datagrams arrive at the scanner's listeners and at the runtime's engine;
\* the forwarder and the runtime's event loop take the events they emit.
ScannerReceiveAny == \E datagram \in Datagrams : ScannerReceive(datagram)

StartServiceAny == \E listen_ok \in BOOLEAN : StartService(listen_ok)

RuntimeReceiveAny == \E datagram \in Datagrams : RuntimeReceive(datagram)

EventLoopAny == \E io_ok \in BOOLEAN : EventLoop(io_ok)

NextEvents ==
    \/ StartListening
    \/ StopListening
    \/ ScannerReceiveAny
    \/ ForwardEvent
    \/ StartServiceAny
    \/ RuntimeReceiveAny
    \/ EventLoopAny

SpecEvents == InitScanner /\ [][NextEvents]_vars

\* The scanner's side alone. The forwarder task, spawned by
\* DeviceScanner::new, is polled whenever its channel holds an event.
NextForwarder ==
    \/ StartListening
    \/ StopListening
    \/ ScannerReceiveAny
    \/ ForwardEvent

SpecForwarderFair ==
    InitScanner /\ [][NextForwarder]_vars /\ WF_vars(ForwardEvent)

\* ------------------------------------------------------------ SpecRuntime
\* A DiscoveryRuntime whose new() found no file: start_service, the engine's
\* events, the event loop, the announce task, the clock, and shutdown.
LoopAnnounceAny == \E ok \in BOOLEAN : LoopAnnounce(ok)

ShutdownAny == \E io_ok \in BOOLEAN : Shutdown(io_ok)

NextRuntime ==
    \/ StartServiceAny
    \/ RuntimeReceiveAny
    \/ EventLoopAny
    \/ LoopAnnounceAny
    \/ LoopSleep
    \/ ShutdownAny
    \/ Tick

SpecRuntime == InitScanner /\ [][NextRuntime]_vars

\* ----------------------------------------------------------- SpecAnnounce
\* The two announce loops: the scanner's broadcast tasks and the announce
\* task of the runtime's start_service.
NextAnnounce ==
    \/ StartBroadcastAny
    \/ StopBroadcast
    \/ RunStep
    \/ StartServiceAny
    \/ LoopAnnounceAny
    \/ LoopSleep

SpecAnnounce == InitScanner /\ [][NextAnnounce]_vars

\* ======================================================= ScrobblingManager
\* Largest max_retries a manager is constructed with.
MaxRetries == 2
\* Number of tracks held back in scrobble_cache in a behaviour.
MaxCached == 2

\* enum ScrobblingService.
Services == {"LastFm", "LibreFm", "ListenBrainz"}

Tracks == {"track-1", "track-2"}

\* The number of calls of the client that fail before one succeeds.
Failures == 0..(MaxRetries + 1)

\* scrobble_cache holds at most 48 tracks, now_playing_cache at most one.
ScrobbleCacheCapacity == 48

NowPlayingCacheCapacity == 1

\* push_back, then pop_front when the cache is over its capacity.
PushCapped(cache, track, capacity) ==
    IF Len(cache) + 1 > capacity
    THEN Tail(Append(cache, track))
    ELSE Append(cache, track)

\* A loop that gives up only when attempts exceeds max_retries.
RECURSIVE RetryScrobbleLate(_, _, _, _)
RetryScrobbleLate(attempts, sleeps, failures, retries) ==
    IF attempts >= failures
    THEN [result |-> "Ok", calls |-> attempts + 1, sleeps |-> sleeps]
    ELSE IF attempts + 1 > retries
    THEN [result |-> "Err", calls |-> attempts + 1, sleeps |-> sleeps]
    ELSE RetryScrobbleLate(attempts + 1, sleeps + 1, failures, retries)

\* retry_scrobble from `attempts` failed calls on, with a client whose first
\* `failures` calls fail: Ok at the first call that succeeds; after a failed
\* call attempts += 1, the error is returned when attempts >= max_retries,
\* and the loop sleeps retry_delay otherwise.
\* The outcome: [result, calls, sleeps].
RECURSIVE RetryScrobble(_, _, _, _)
RetryScrobble(attempts, sleeps, failures, retries) ==
    IF attempts >= failures
    THEN [result |-> "Ok", calls |-> attempts + 1, sleeps |-> sleeps]
    ELSE IF attempts + 1 >= retries
    THEN [result |-> "Err", calls |-> attempts + 1, sleeps |-> sleeps]
    ELSE RetryScrobble(attempts + 1, sleeps + 1, failures, retries)

\* retry_update_now_playing: the same loop around client.update_now_playing.
RECURSIVE RetryUpdateNowPlaying(_, _, _, _)
RetryUpdateNowPlaying(attempts, sleeps, failures, retries) ==
    IF attempts >= failures
    THEN [result |-> "Ok", calls |-> attempts + 1, sleeps |-> sleeps]
    ELSE IF attempts + 1 >= retries
    THEN [result |-> "Err", calls |-> attempts + 1, sleeps |-> sleeps]
    ELSE RetryUpdateNowPlaying(attempts + 1, sleeps + 1, failures, retries)

\* The loop of authenticate around client.authenticate, once the client is
\* constructed.
RECURSIVE AuthenticateLoop(_, _, _, _)
AuthenticateLoop(attempts, sleeps, failures, retries) ==
    IF attempts >= failures
    THEN [result |-> "Ok", calls |-> attempts + 1, sleeps |-> sleeps]
    ELSE IF attempts + 1 >= retries
    THEN [result |-> "Err", calls |-> attempts + 1, sleeps |-> sleeps]
    ELSE AuthenticateLoop(attempts + 1, sleeps + 1, failures, retries)

\* authenticate: is_authenticating = true, then the loop. In its first turn
\* a missing Last.fm key or secret, or a client that cannot be constructed,
\* leaves through `?`; a success and the last failure clear the flag first.
\* The outcome: [result, flag, calls, sleeps].
AuthenticateOutcome(svc, api_key, api_secret, client_ok, failures) ==
    IF \/ svc = "LastFm" /\ (~api_key \/ ~api_secret)
       \/ ~client_ok
    THEN [result |-> "EarlyErr", flag |-> TRUE, calls |-> 0, sleeps |-> 0]
    ELSE LET out == AuthenticateLoop(0, 0, failures, max_retries) IN
         [result |-> out.result, flag |-> FALSE, calls |-> out.calls,
          sleeps |-> out.sleeps]

\* authenticate, with process_cache after a success: both caches are handed
\* to update_now_playing_all and scrobble_all, which send now that the flag
\* is false.
Authenticate(svc, api_key, api_secret, client_ok, failures) ==
    LET out == AuthenticateOutcome(svc, api_key, api_secret, client_ok,
                                   failures)
    IN
    /\ is_authenticating' = out.flag
    /\ clients' = IF out.result = "Ok" THEN clients \cup {svc} ELSE clients
    /\ now_playing_cache' =
          IF out.result = "Ok" THEN <<>> ELSE now_playing_cache
    /\ scrobble_cache' = IF out.result = "Ok" THEN <<>> ELSE scrobble_cache
    /\ scrobbleCall' =
          [op |-> "authenticate", service |-> svc, result |-> out.result,
           failures |-> IF out.result = "EarlyErr" THEN 0 ELSE failures,
           calls |-> out.calls, sleeps |-> out.sleeps,
           sent |-> IF out.result = "Ok"
                    THEN Len(now_playing_cache) + Len(scrobble_cache) ELSE 0]
    /\ UNCHANGED <<max_retries, validatorVars, storeVars, scannerVars,
                   orchestrationVars>>

\* scrobble: cached while is_authenticating; otherwise sent through
\* retry_scrobble when the svc has a client with a session, and an error
\* goes to error_sender.
Scrobble(svc, track, failures) ==
    /\ is_authenticating => Len(scrobble_cache) < MaxCached
    /\ IF is_authenticating
       THEN /\ scrobble_cache' =
                  PushCapped(scrobble_cache, track, ScrobbleCacheCapacity)
            /\ scrobbleCall' = [NoScrobbleCall EXCEPT !.op = "scrobble",
                                   !.service = svc, !.result = "cached"]
       ELSE /\ scrobble_cache' = scrobble_cache
            /\ scrobbleCall' =
                  IF svc \in clients
                  THEN LET out == RetryScrobble(0, 0, failures, max_retries) IN
                       [op |-> "scrobble", service |-> svc,
                        result |-> out.result, failures |-> failures,
                        calls |-> out.calls,
                        sleeps |-> out.sleeps, sent |-> 0]
                  ELSE [NoScrobbleCall EXCEPT !.op = "scrobble",
                           !.service = svc, !.result = "no_client"]
    /\ UNCHANGED <<max_retries, is_authenticating, clients, now_playing_cache,
                   validatorVars, storeVars, scannerVars, orchestrationVars>>

\* update_now_playing: the same, with a cache of one track.
UpdateNowPlaying(svc, track, failures) ==
    /\ IF is_authenticating
       THEN /\ now_playing_cache' =
                  PushCapped(now_playing_cache, track, NowPlayingCacheCapacity)
            /\ scrobbleCall' =
                  [NoScrobbleCall EXCEPT !.op = "update_now_playing",
                      !.service = svc, !.result = "cached"]
       ELSE /\ now_playing_cache' = now_playing_cache
            /\ scrobbleCall' =
                  IF svc \in clients
                  THEN LET out == RetryUpdateNowPlaying(0, 0, failures,
                                                        max_retries)
                       IN [op |-> "update_now_playing", service |-> svc,
                           result |-> out.result, failures |-> failures,
                           calls |-> out.calls,
                           sleeps |-> out.sleeps, sent |-> 0]
                  ELSE [NoScrobbleCall EXCEPT !.op = "update_now_playing",
                           !.service = svc, !.result = "no_client"]
    /\ UNCHANGED <<max_retries, is_authenticating, clients, scrobble_cache,
                   validatorVars, storeVars, scannerVars, orchestrationVars>>

\* ---------------------------------------------------------- SpecScrobbling
\* ScrobblingManager::new(max_retries, retry_delay) for any max_retries.
InitScrobbling ==
    /\ ValidatorIdle
    /\ StoreIdle
    /\ ScannerIdle
    /\ RuntimeIdle
    /\ max_retries \in 0..MaxRetries
    /\ is_authenticating = FALSE
    /\ clients = {}
    /\ now_playing_cache = <<>>
    /\ scrobble_cache = <<>>
    /\ scrobbleCall = NoScrobbleCall

AuthenticateAny ==
    \E svc \in Services, api_key \in BOOLEAN, api_secret \in BOOLEAN,
       client_ok \in BOOLEAN, failures \in Failures :
        Authenticate(svc, api_key, api_secret, client_ok, failures)

ScrobbleAny ==
    \E svc \in Services, track \in Tracks, failures \in Failures :
        Scrobble(svc, track, failures)

UpdateNowPlayingAny ==
    \E svc \in Services, track \in Tracks, failures \in Failures :
        UpdateNowPlaying(svc, track, failures)

NextScrobbling == AuthenticateAny \/ ScrobbleAny \/ UpdateNowPlayingAny

SpecScrobbling == InitScrobbling /\ [][NextScrobbling]_vars

\* ------------------------------------------------- the calls seen in `last`
\* The last call was a verify of a DNS-name identity against a certificate
\* the chain verifier accepted and whose fingerprint could be computed.
PinningVerify ==
    /\ last.op = "verify"
    /\ last.delegate = "ok"
    /\ last.cert.key = "ok"
    /\ last.server_name.kind = "DnsName"

\* The map holds the pair (key, fingerprint).
Pinned(map, key, fingerprint) ==
    key \in DOMAIN map /\ map[key] = fingerprint

StepsOf(call) == {call.steps[i] : i \in DOMAIN call.steps}

\* ------------------------------------------------------------------ claims

\* C1: verify returns accept only if the chain verifier accepted the chain,
\* the identity is a DNS name, and the trust map holds for that name exactly
\* the fingerprint computed from the end-entity certificate.
C1_AcceptOnlyIfPinned ==
    (last.op = "verify" /\ last.result = "Accept") =>
        /\ last.delegate = "ok"
        /\ last.server_name.kind = "DnsName"
        /\ last.cert.key = "ok"
        /\ Pinned(fingerprints, last.server_name.text, last.cert.fingerprint)

\* C1 witness: a verify call was accepted.
C1_Witness_Accepted == last.op = "verify" /\ last.result = "Accept"

\* C2: after trust([S], F), a verify for the DNS name S against a chain-valid
\* certificate with fingerprint F is accepted. Stated for the verify that
\* directly follows the trust call.
C2_VerifyAfterTrustAccepts ==
    [][(/\ last.op = "trust"
        /\ last'.op = "verify"
        /\ last'.delegate = "ok"
        /\ last'.cert.key = "ok"
        /\ last'.server_name.kind = "DnsName"
        /\ last'.server_name.text \in last.domains
        /\ last'.cert.fingerprint = last.fingerprint)
       => last'.result = "Accept"]_vars

\* C3: when the trust map holds F for S, a verify for the DNS name S against
\* a chain-valid certificate with another fingerprint is rejected with
\* FingerprintMismatch.
C3_MismatchRejected ==
    (/\ PinningVerify
     /\ last.server_name.text \in DOMAIN fingerprints
     /\ fingerprints[last.server_name.text] # last.cert.fingerprint)
    => last.result = "FingerprintMismatch"

\* C4: when the trust map has no entry for S, a verify for the DNS name S
\* against a chain-valid certificate is rejected with UnknownServer, and the
\* map still has no entry for S afterwards.
C4_UnknownRejected ==
    (/\ PinningVerify
     /\ last.server_name.text \notin DOMAIN fingerprints)
    => last.result = "UnknownServer"

\* C5: trust overwrites: when trust(.., S, ..; G) follows trust(.., S, ..; F)
\* with F # G, the map then holds G for S.
C5_RetrustOverwrites ==
    [][(/\ last.op = "trust"
        /\ last'.op = "trust"
        /\ last'.fingerprint # last.fingerprint)
       => \A s \in last.domains \cap last'.domains :
             Pinned(fingerprints', s, last'.fingerprint)]_vars

\* C6: when the chain verifier rejects, verify rejects with the chain
\* verifier's own reason and runs no pinning step, whatever the map holds.
C6_DelegateFirst ==
    (last.op = "verify" /\ last.delegate # "ok") =>
        /\ last.result = last.delegate
        /\ last.steps = <<"delegate">>

\* C6 witness: the chain verifier rejected a certificate whose key the map
\* pins for the presented DNS name, with the lock free.
C6_Witness_RejectedThoughPinned ==
    /\ last.op = "verify"
    /\ last.delegate # "ok"
    /\ last.cert.key = "ok"
    /\ last.server_name.kind = "DnsName"
    /\ lock = "free"
    /\ Pinned(fingerprints, last.server_name.text, last.cert.fingerprint)

\* C7 as stated: every verify for an identity that is not a DNS name is
\* rejected with InvalidServerName.
C7_NonDnsAlwaysInvalidServerName ==
    (last.op = "verify" /\ last.server_name.kind # "DnsName")
    => last.result = "InvalidServerName"

\* C7 amended: a verify for an identity that is not a DNS name is never
\* accepted and never consults the trust map, whatever the map holds: it is
\* rejected with the chain verifier's reason when that one rejects, with the
\* parse/fingerprint error when the fingerprint cannot be computed, and with
\* InvalidServerName otherwise.
C7_NonDnsRejectedBeforeLookup ==
    (last.op = "verify" /\ last.server_name.kind # "DnsName") =>
        /\ "lookup" \notin StepsOf(last)
        /\ last.result =
              IF last.delegate # "ok" THEN last.delegate
              ELSE IF last.cert.key # "ok" THEN "General"
              ELSE "InvalidServerName"

\* C7 witness: an IP-address identity whose text the map pins to exactly the
\* presented key was rejected with InvalidServerName.
C7_Witness_PinnedIpRejected ==
    /\ last.op = "verify"
    /\ last.server_name.kind = "IpAddress"
    /\ last.result = "InvalidServerName"
    /\ lock = "free"
    /\ Pinned(fingerprints, last.server_name.text, last.cert.fingerprint)

\* C8: verify changes neither the trust map nor the report file; of the
\* calls on a validator only trust changes them, and trust changes no entry
\* but those of the domains it names (entries do not expire).
C8_VerifyReadOnly ==
    [][/\ (last'.op = "verify" =>
              fingerprints' = fingerprints /\ report' = report)
       /\ ((last'.op # "new" /\
              (fingerprints' # fingerprints \/ report' # report))
              => last'.op = "trust")
       /\ (last'.op # "new" =>
              \A k \in DOMAIN fingerprints :
                 /\ k \in DOMAIN fingerprints'
                 /\ (fingerprints'[k] # fingerprints[k] =>
                        last'.op = "trust" /\ k \in last'.domains))
      ]_vars

\* C8 witness: a verify for a DNS name the map does not know came back
\* UnknownServer, the case in which pinning on first use would write.
C8_Witness_UnknownVerified ==
    /\ PinningVerify
    /\ last.result = "UnknownServer"
    /\ lock = "free"

\* The report file holds every pair the last trust call named.
LastTrustPersisted ==
    \A d \in last.domains : <<d, last.fingerprint>> \in report.entries

\* C9: when a trust call did not get its entries saved, it returns an error
\* and the in-memory map keeps none of its entries that are not in the file.
C9_UnsavedTrustNotKept ==
    (last.op = "trust" /\ ~LastTrustPersisted) =>
        /\ last.result \in {"DirectoryCreation", "Serialization"}
        /\ \A d \in last.domains :
              Pinned(fingerprints, d, last.fingerprint)
                 => <<d, last.fingerprint>> \in report.entries

\* C10: a trust call made while the disk takes the write returns success,
\* and the report file then holds the whole in-memory map: parsing it back,
\* as new() does, gives the map in memory.
C10_TrustPersistsWholeMap ==
    (last.op = "trust" /\ last.io_ok) =>
        /\ last.result = "Ok"
        /\ report.state = "ok"
        /\ FromToml(report.entries) = fingerprints

C12_NewFailsHard ==
    last.op = "new" =>
        /\ (pathKind = "file" => last.result = "NotADirectory")
        /\ (report.state = "corrupt" /\ last.io_ok
               => last.result = "Serialization")
        /\ (last.result # "Ok" => validator = "none")
        /\ (pathKind = "file" \/ report.state = "corrupt"
               => validator = "none")

\* C12 witness: new() met an unparsable report and returned Serialization.
C12_Witness_CorruptReport ==
    /\ last.op = "new"
    /\ report.state = "corrupt"
    /\ last.result = "Serialization"

\* ============================================================ Device Store
\* The age of d at instant t is below the retention window; an instant
\* before last_seen gives no age.
AgeBelowWindow(d, t) ==
    d.last_seen <= t /\ t - d.last_seen < RetentionSecs

\* C13: when save() has succeeded and the next call on the store is a load()
\* that succeeds, the live cache afterwards holds exactly the entries it held
\* whose age at the time of the save was below the 30-second window; an entry
\* at or past the window then is gone.
C13_SaveLoadRoundTrip ==
    [][(/\ storeCall.op = "save" /\ storeCall.result = "Ok"
        /\ storeCall' # storeCall
        /\ storeCall'.op = "load" /\ storeCall'.result = "Ok") =>
            /\ devices' = SelectSeq(devices,
                              LAMBDA d : AgeBelowWindow(d, storeCall.at))
            /\ \A i \in DOMAIN devices :
                  storeCall.at - devices[i].last_seen >= RetentionSecs =>
                      devices[i] \notin {devices'[j] : j \in DOMAIN devices'}
      ]_vars

\* A reload right after a save at the end of the window: the entry kept is
\* one whose age was below it.
C13_Witness_ReloadedAfterSave ==
    /\ storeCall.op = "load" /\ storeCall.after = "save"
    /\ storeCall.result = "Ok"
    /\ now = 30
    /\ Len(devices) = 1 /\ devices[1].last_seen = 10
    /\ discovered.devices = DevicesToToml(devices)

\* C14: update_device called twice in a row with the same fingerprint and
\* different aliases leaves exactly one entry for that fingerprint, equal to
\* the second call's device (its alias and last_seen); the entries of other
\* fingerprints are what they were.
C14_UpsertByFingerprint ==
    [][(/\ storeCall.op = "update_device"
        /\ storeCall'.op = "update_device"
        /\ storeCall' # storeCall
        /\ storeCall'.device.fingerprint = storeCall.device.fingerprint
        /\ storeCall'.device.alias # storeCall.device.alias) =>
            LET f == storeCall'.device.fingerprint IN
            /\ Cardinality({i \in DOMAIN devices' :
                               devices'[i].fingerprint = f}) = 1
            /\ \A i \in DOMAIN devices' :
                  devices'[i].fingerprint = f =>
                      devices'[i] = storeCall'.device
            /\ {devices'[i] : i \in DOMAIN devices'} \ {storeCall'.device}
                 = {devices[i] : i \in DOMAIN devices} \ {storeCall.device}
      ]_vars

\* The devices written in the .discovered file.
Persisted == {DevicesFromToml(discovered.devices)[i] :
                 i \in DOMAIN discovered.devices}

\* C16: a save() that succeeds writes exactly the entries of the live cache
\* whose age (clock - last_seen) is below 30 seconds: an entry seen at 0 is
\* written at 10 and is not written at 31, and an entry whose age is exactly
\* 30 seconds is left out.
C16_SaveWritesFreshEntries ==
    (storeCall.op = "save" /\ storeCall.result = "Ok") =>
        /\ discovered.state = "ok"
        /\ DevicesFromToml(discovered.devices)
             = SelectSeq(devices, LAMBDA d : AgeBelowWindow(d, storeCall.at))
        /\ \A i \in DOMAIN devices :
              /\ (devices[i].last_seen = 0 /\ storeCall.at = 10
                    => devices[i] \in Persisted)
              /\ (devices[i].last_seen = 0 /\ storeCall.at = 31
                    => devices[i] \notin Persisted)
              /\ (storeCall.at - devices[i].last_seen = RetentionSecs
                    => devices[i] \notin Persisted)

\* A save at 30 with an entry seen at 0 (left out) and one seen at 10 (kept).
C16_Witness_ExactlyThirtyOmitted ==
    /\ storeCall.op = "save" /\ storeCall.result = "Ok" /\ storeCall.at = 30
    /\ \E i, j \in DOMAIN devices :
          /\ devices[i].last_seen = 0 /\ devices[i] \notin Persisted
          /\ devices[j].last_seen = 10 /\ devices[j] \in Persisted

\* The fingerprints of stale entries that a step takes out of the live cache.
StaleRemoved ==
    {devices[i].fingerprint : i \in {k \in DOMAIN devices :
        ~AgeBelowWindow(devices[k], now)}} \ FingerprintsOf(devices')

\* C17 (as stated): save() leaves the live cache and what get_devices()
\* returns unchanged, and only prune_expired takes a stale entry out of the
\* live cache.
C17_OnlyPruneRemovesStale ==
    [][/\ (storeCall' # storeCall /\ storeCall'.op = "save" =>
              devices' = devices /\ GetDevices' = GetDevices)
       /\ (StaleRemoved # {} => storeCall'.op = "prune_expired")
      ]_vars

\* C17 (amended): save() leaves the live cache and what get_devices()
\* returns unchanged; a stale entry leaves the live cache only in
\* prune_expired, which keeps exactly the entries that are not stale, or in a
\* load(), which replaces the cache by the content of the file.
C17_SaveLeavesCacheUnchanged ==
    [][/\ (storeCall' # storeCall /\ storeCall'.op = "save" =>
              devices' = devices /\ GetDevices' = GetDevices)
       /\ (StaleRemoved # {} => storeCall'.op \in {"prune_expired", "load"})
       /\ (storeCall' # storeCall /\ storeCall'.op = "prune_expired"
           /\ devicesLock = "free" =>
              devices' = SelectSeq(devices,
                                   LAMBDA d : AgeBelowWindow(d, now)))
       /\ (storeCall' # storeCall /\ storeCall'.op = "load"
           /\ devices' # devices =>
              devices' = DevicesFromToml(discovered.devices))
      ]_vars

\* After a save that succeeded, a stale entry is still in the live cache and
\* is not in the file.
C17_Witness_StaleKeptInCache ==
    /\ storeCall.op = "save" /\ storeCall.result = "Ok"
    /\ \E i \in DOMAIN devices :
          /\ ~AgeBelowWindow(devices[i], storeCall.at)
          /\ devices[i] \notin Persisted
    /\ GetDevices.devices = devices

\* C18: a prune_expired() made while the disk takes the write returns
\* success, the live cache then holds exactly the entries that were not stale
\* at the call, and the file holds the same entries.
C18_PruneThenSave ==
    [][(/\ storeCall' # storeCall
        /\ storeCall'.op = "prune_expired" /\ storeCall'.io_ok) =>
            /\ storeCall'.result = "Ok"
            /\ devices' = SelectSeq(devices,
                                    LAMBDA d : AgeBelowWindow(d, now))
            /\ discovered'.state = "ok"
            /\ DevicesFromToml(discovered'.devices) = devices'
      ]_vars

\* C19: an update_device whose automatic save meets a failing disk still
\* returns normally to the loop that called it, and the device it was given
\* is in the live cache.
C19_AutoSaveFailureSwallowed ==
    (storeCall.op = "update_device" /\ ~storeCall.io_ok) =>
        /\ storeCall.result = "returned"
        /\ \E i \in DOMAIN devices : devices[i] = storeCall.device

\* C20: a load() that returns without error leaves the live cache equal to
\* the content of the file, and empty when there is no file, whatever the
\* cache held before.
C20_LoadReplacesCache ==
    [][(/\ storeCall' # storeCall
        /\ storeCall'.op = "load" /\ storeCall'.result = "Ok") =>
            /\ (discovered.state = "absent" => devices' = <<>>)
            /\ (discovered.state = "ok" =>
                  devices' = DevicesFromToml(discovered.devices))
      ]_vars

\* C15: in every reachable state, whatever load, save, prune_expired and
\* update_device calls were made on the store and whatever events the
\* scanner's forwarder handled, the live cache, the persisted file and the
\* scanner's map each hold at most one entry per fingerprint.
C15_OneEntryPerFingerprint ==
    /\ UniqueFingerprints(devices)
    /\ discovered.state = "ok" =>
          UniqueFingerprints(DevicesFromToml(discovered.devices))
    /\ \A k1, k2 \in DOMAIN scannerDevices :
          scannerDevices[k1].fingerprint = scannerDevices[k2].fingerprint
              => k1 = k2

\* update_device has replaced the entry loaded from the file for the same
\* fingerprint, next to an entry of the other fingerprint, and the forwarder
\* has handled events of both fingerprints.
C15_Witness_ReplacedNotDuplicated ==
    /\ storeCall.op = "update_device"
    /\ Len(devices) = 2
    /\ \E i \in DOMAIN devices : devices[i] = storeCall.device
    /\ discovered.state = "ok"
    /\ \E d \in Persisted :
          /\ d.fingerprint = storeCall.device.fingerprint
          /\ d.alias # storeCall.device.alias
    /\ DOMAIN scannerDevices = DeviceFingerprints
    /\ scannerDevices[sink.fingerprint].alias = sink.alias

\* ================================================================ Scanner
\* The broadcast tasks whose loop is running.
AliveLoops == {t \in DOMAIN broadcastRuns : LoopAlive(broadcastRuns[t])}

\* The broadcast tasks that have not come to their end.
Unfinished == {t \in DOMAIN broadcastRuns : ~IsFinished(broadcastRuns[t])}

\* C21: after any sequence of start_broadcast and stop_broadcast calls, each
\* completed before the next begins, at most one broadcast loop is alive.
C21_AtMostOneBroadcastLoop == Cardinality(AliveLoops) <= 1

\* C22: between calls, is_broadcasting() is true exactly when a broadcast
\* run is active: a loop that is alive has the flag set, and a set flag has a
\* run that has not come to its end.
C22_FlagTracksLoop ==
    /\ (AliveLoops # {} => is_broadcasting)
    /\ (is_broadcasting => Unfinished # {})

\* The listen tasks that are inside the engine's listen operation.
AliveListeners == {t \in DOMAIN listenRuns : listenRuns[t] = "listening"}

C25_AtMostOneListener ==
    [][/\ Cardinality(AliveListeners') <= 1
       /\ (StopListening => AliveListeners' = {})
      ]_vars

\* The consumed events: those sent and no longer in the channel.
Consumed == SubSeq(emitted, 1, Len(emitted) - Len(eventRx))

\* The last consumed event that carries the fingerprint.
LastConsumed(fp) ==
    Consumed[CHOOSE i \in DOMAIN Consumed :
                /\ Consumed[i].fingerprint = fp
                /\ \A j \in DOMAIN Consumed :
                      Consumed[j].fingerprint = fp => j <= i]

\* C26: the forwarder handles every event the engine sent exactly once and
\* in arrival order: the messages published are the messages of the consumed
\* events, one for one and in their order (a repeated event is published
\* again), the channel holds the rest in order, the device map holds under
\* every consumed fingerprint the last event that carried it, and every event
\* sent is eventually consumed.
C26_EveryEventOnceInOrder ==
    /\ [](/\ Len(emitted) = Len(published) + Len(eventRx)
          /\ published = [i \in DOMAIN Consumed |-> Message(Consumed[i])]
          /\ eventRx = SubSeq(emitted, Len(published) + 1, Len(emitted))
          /\ DOMAIN scannerDevices =
                {Consumed[i].fingerprint : i \in DOMAIN Consumed}
          /\ \A fp \in DOMAIN scannerDevices :
                scannerDevices[fp] = LastConsumed(fp)
          /\ (published # <<>> => sink = published[Len(published)]))
    /\ \A n \in 1..MaxEvents :
          (Len(emitted) >= n) ~> (Len(published) >= n)

\* The same announcement arrived twice and was published twice, and every
\* event sent has been forwarded.
C26_Witness_DuplicatePublishedTwice ==
    /\ Len(published) = MaxEvents
    /\ published[1] = published[2]
    /\ published[3].fingerprint # published[1].fingerprint
    /\ eventRx = <<>>
    /\ DOMAIN scannerDevices = DeviceFingerprints

\* C29: an engine that receives the node's own announcement emits no event
\* for it: whatever datagrams arrive, in whatever order and however often,
\* no event sent or waiting in a channel carries the local fingerprint, and
\* the local fingerprint is neither a key of the scanner's device map nor in
\* the Device Store's live cache or file.
C29_OwnAnnouncementFiltered ==
    /\ \A i \in DOMAIN emitted : emitted[i].fingerprint # LocalFingerprint
    /\ \A i \in DOMAIN runtimeEmitted :
          runtimeEmitted[i].fingerprint # LocalFingerprint
    /\ \A i \in DOMAIN eventRx : eventRx[i].fingerprint # LocalFingerprint
    /\ \A i \in DOMAIN runtimeRx : runtimeRx[i].fingerprint # LocalFingerprint
    /\ LocalFingerprint \notin DOMAIN scannerDevices
    /\ \A fp \in DOMAIN scannerDevices :
          scannerDevices[fp].fingerprint # LocalFingerprint
    /\ LocalFingerprint \notin FingerprintsOf(devices)
    /\ LocalFingerprint \notin {d.fingerprint : d \in Persisted}

\* Both engines have received the node's own announcement, and each has
\* delivered a peer's: the map and the live cache hold peers only.
C29_Witness_OwnHeardPeersStored ==
    /\ heardOwn = {"scanner", "runtime"}
    /\ DOMAIN scannerDevices # {}
    /\ devices # <<>>

\* C27: shutdown cancels the signal, stops the engine and then flushes the
\* store, and no event is lost: once shutdown has flushed, every event the
\* engine emitted is in the live cache under its fingerprint, and is in the
\* file when the flush succeeded and the entry was not stale.
C27_NoEventLostAtShutdown ==
    /\ [][ShutdownAny =>
             /\ cancel_token' /\ service' = "shutdown"
             /\ storeCall'.op = "save"]_vars
    /\ [](shutdown = "returned" =>
             \A i \in DOMAIN runtimeEmitted :
                /\ runtimeEmitted[i].fingerprint \in FingerprintsOf(devices)
                /\ (/\ storeCall.op = "save" /\ storeCall.result = "Ok"
                    /\ AgeBelowWindow(runtimeEmitted[i], storeCall.at)
                    => runtimeEmitted[i].fingerprint
                          \in {d.fingerprint : d \in Persisted}))

\* C28: after shutdown() has returned, the announce task started by
\* start_service announces no more and the engine's listen receives no more.
C28_NoNetworkAfterShutdown ==
    [][shutdown = "returned" =>
          /\ announceLoop'.announces = announceLoop.announces
          /\ ~RuntimeReceiveAny
      ]_vars

\* C30: a failed announce does not end an announce loop and is not tried
\* again at once. In a broadcast task and in the runtime's announce task, an
\* attempt is made only when as many sleeps as earlier attempts have elapsed;
\* after an attempt that failed the task is at its sleep, or, in a broadcast
\* task whose duration has elapsed, past the loop as after a success.
C30_FailedAnnounceWaitsForNextTurn ==
    [][/\ \A t \in DOMAIN broadcastRuns :
             broadcastRuns'[t].announces # broadcastRuns[t].announces =>
                /\ broadcastRuns[t].announces = broadcastRuns[t].sleeps
                /\ broadcastRuns'[t].announces = broadcastRuns[t].announces + 1
                /\ broadcastRuns'[t].sleeps = broadcastRuns[t].sleeps
                /\ broadcastRuns'[t].pc =
                      IF broadcastRuns[t].sleeps * IntervalSecs
                            >= broadcastRuns[t].duration
                      THEN "exit" ELSE "sleep"
       /\ (announceLoop'.announces # announceLoop.announces =>
                /\ announceLoop.announces = announceLoop.sleeps
                /\ announceLoop'.announces = announceLoop.announces + 1
                /\ announceLoop'.sleeps = announceLoop.sleeps
                /\ announceLoop'.pc = "sleep")
       /\ \A t \in DOMAIN broadcastRuns :
             broadcastRuns'[t].sleeps # broadcastRuns[t].sleeps =>
                /\ broadcastRuns'[t].sleeps = broadcastRuns[t].sleeps + 1
                /\ broadcastRuns'[t].pc = "announce"
       /\ (announceLoop'.sleeps # announceLoop.sleeps =>
                /\ announceLoop'.sleeps = announceLoop.sleeps + 1
                /\ announceLoop'.pc = "announce")
      ]_vars

\* The second announce of a broadcast task and the second of the runtime's
\* announce task have failed, one full sleep after the first: both tasks are
\* alive, at their sleep.
C30_Witness_AsleepAfterFailure ==
    /\ \E t \in DOMAIN broadcastRuns :
          /\ broadcastRuns[t].failed
          /\ broadcastRuns[t].pc = "sleep"
          /\ broadcastRuns[t].announces = 2
          /\ broadcastRuns[t].sleeps = 1
    /\ announceLoop.failed
    /\ announceLoop.pc = "sleep"
    /\ announceLoop.announces = 2
    /\ announceLoop.sleeps = 1

\* C31: every call of update_device and of prune_expired returns: none
\* blocks on the store's own lock, and the lock is free afterwards, so that
\* a get_devices after it gets the cache.
C31_UpdateAndPruneReturn ==
    [][(/\ storeCall' # storeCall
        /\ storeCall'.op \in {"update_device", "prune_expired"}) =>
            /\ storeCall'.result # "blocked"
            /\ devicesLock' = "free"
            /\ GetDevices'.result = "Ok"
      ]_vars

\* C32: every call of trust returns success or an error and leaves the lock
\* of the trust map free: it neither blocks nor fails on that lock.
C32_TrustReturnsLockFree ==
    [][(last' # last /\ last'.op = "trust") =>
            /\ last'.result \notin {"blocked", "panic"}
            /\ lock' = "free"
      ]_vars

\* C33: no broadcast loop becomes unstoppable: whenever a broadcast loop is
\* alive, its handle is the one stored in broadcast_task and is_broadcasting
\* is true, and a stop_broadcast leaves no loop alive.
C33_AliveLoopIsStoppable ==
    /\ [](\A t \in AliveLoops : broadcast_task = t /\ is_broadcasting)
    /\ [][StopBroadcast => AliveLoops' = {}]_vars

\* C34: a verify that runs next to a trust call never reads a half-applied
\* call: the map its lookup reads is the map as the running trust call found
\* it or that map with all the domains of the call inserted, it reads it with
\* the lock free, and its verdict is the one that map gives.
C34_VerifySeesWholeTrustCalls ==
    [][(verifying.pc = "lookup" /\ verifying'.pc = "idle"
        /\ verifying'.result # "panic") =>
            /\ lock = "free"
            /\ verifying'.seen = fingerprints
            /\ (trusting.pc = "idle" \/ fingerprints \in
                  {trusting.before,
                   Insert(trusting.before, trusting.all, trusting.fingerprint)})
            /\ verifying'.result =
                  VerifyServerCert(verifying'.seen, "free",
                      verifying.server_name, "ok", verifying.cert).result
      ]_vars

\* A verify waits at the lock while a trust call of two domains has inserted
\* one of them.
C34_Witness_VerifyWaitsForHalfDoneTrust ==
    /\ verifying.pc = "lookup"
    /\ trusting.pc = "inserting"
    /\ Cardinality(trusting.all) = 2
    /\ Cardinality(trusting.rest) = 1
    /\ fingerprints # trusting.before
    /\ fingerprints # Insert(trusting.before, trusting.all, trusting.fingerprint)
    /\ lock = "held"

\* The entries of the live cache whose last_seen is later than the clock.
SeenInFuture == {devices[i] : i \in {k \in DOMAIN devices :
                                        devices[k].last_seen > now}}

\* C35: an entry whose last_seen lies in the future of the clock is stale: a
\* save() that succeeds leaves it out of the file, and a prune_expired() that
\* has taken the lock removes it from the live cache.
C35_FutureLastSeenIsStale ==
    [][/\ (/\ storeCall' # storeCall
           /\ storeCall'.op = "save" /\ storeCall'.result = "Ok") =>
              /\ SeenInFuture \cap Persisted' = {}
              /\ \A d \in Persisted' : d.last_seen <= now
       /\ (/\ storeCall' # storeCall
           /\ storeCall'.op = "prune_expired" /\ devicesLock = "free") =>
              /\ SeenInFuture' = {}
              /\ \A d \in SeenInFuture :
                    d \notin {devices'[j] : j \in DOMAIN devices'}
      ]_vars

\* A save() at instant 0 has succeeded on a cache that holds an entry seen at
\* 10 and one seen at 0: the file holds the second only.
C35_Witness_FutureEntryLeftOut ==
    /\ storeCall.op = "save" /\ storeCall.result = "Ok"
    /\ now = 0 /\ storeCall.at = 0
    /\ \E i, j \in DOMAIN devices :
          /\ devices[i].last_seen = 10
          /\ devices[i] \notin Persisted
          /\ devices[j].last_seen = 0
          /\ devices[j] \in Persisted

\* C36: authenticate leaves is_authenticating false on every return path:
\* after success, after exhausted retries and after an early error.
C36_AuthenticateClearsFlag ==
    [][AuthenticateAny => ~is_authenticating']_vars

\* The last call went through retry_scrobble or retry_update_now_playing.
Retried ==
    /\ scrobbleCall.op \in {"scrobble", "update_now_playing"}
    /\ scrobbleCall.result \in {"Ok", "Err"}

\* C37 (as stated): for every max_retries >= 0 the retry loops call the
\* client at most max_retries times, stop at the first success, return the
\* error after the last failed call, and sleep between consecutive calls.
C37_AtMostMaxRetriesCalls ==
    Retried =>
        /\ scrobbleCall.calls <= max_retries
        /\ scrobbleCall.sleeps = scrobbleCall.calls - 1
        /\ (scrobbleCall.result = "Ok" =>
              scrobbleCall.calls = scrobbleCall.failures + 1)
        /\ (scrobbleCall.result = "Err" =>
              scrobbleCall.calls <= scrobbleCall.failures)

\* The calls a retry loop makes at most: one when max_retries is 0.
CallLimit == IF max_retries = 0 THEN 1 ELSE max_retries

\* C37 (amended): the retry loops make at least one call and at most
\* max_retries calls, one when max_retries is 0. They return Ok at the first
\* call that succeeds, when it is among these; otherwise they return the
\* error after exactly that many failed calls; they sleep once between two
\* consecutive calls and not after the last.
C37_AtLeastOneCall ==
    Retried =>
        /\ scrobbleCall.calls >= 1
        /\ scrobbleCall.calls <= CallLimit
        /\ scrobbleCall.sleeps = scrobbleCall.calls - 1
        /\ (scrobbleCall.result = "Ok" <=> scrobbleCall.failures < CallLimit)
        /\ (scrobbleCall.result = "Ok" =>
              scrobbleCall.calls = scrobbleCall.failures + 1)
        /\ (scrobbleCall.result = "Err" => scrobbleCall.calls = CallLimit)

\* A scrobble on a manager with max_retries = 0 has called the client once,
\* and the call failed.
C37_Witness_OneCallWithZeroRetries ==
    /\ scrobbleCall.op = "scrobble"
    /\ scrobbleCall.result = "Err"
    /\ max_retries = 0
    /\ scrobbleCall.calls = 1
    /\ scrobbleCall.sleeps = 0

====
